---- MODULE Spec2Model ----
(***************************************************************************)
(* Model of the opsglobe network engine:                                   *)
(*   - the reachability GET handler of the nodes route and its prober      *)
(*     (checkServerStatus), fanned out with Promise.all;                   *)
(*   - the diagnostics POST handler of the tools route (nslookup, ping,    *)
(*     port, ssl);                                                         *)
(*   - the registration POST handler of the nodes route, run concurrently  *)
(*     over the registry file;                                             *)
(*   - the service status GET handler;                                     *)
(*   - the dashboard's fetchData mapping, the Network Tools panel and the  *)
(*     scene's selection and filters.                                      *)
(* A handler is a chain of event-loop turns: one action per turn, i.e. the *)
(* socket/file callback together with every microtask continuation that    *)
(* runs before the next I/O event.                                         *)
(***************************************************************************)
EXTENDS Integers, Sequences, FiniteSets, TLC

\* ---------------------------------------------------------------- bounds
MaxNodes == 2
MaxClock == 2
MaxRuns == 2

\* ------------------------------------------------------------- utilities
SeqsUpTo(S, n) == UNION {[1..k -> S] : k \in 0..n}

\* =========================================================================
\* Reachability: nodes route (two copies of the route, differing in the
\* spelling of the status strings)
\* =========================================================================
Variants == {1, 2}

Hosts == {"10.0.0.1"}

\* node.ip === undefined
NoIp == "undefined"

\* An element of the parsed registry list.  JSON admits null as an element.
NullEntry == [isNull |-> TRUE, id |-> "", ip |-> ""]

ObjEntries == [isNull : {FALSE}, id : {"a", "b"}, ip : Hosts \cup {NoIp}]

Entries == {NullEntry} \cup ObjEntries

\* What fs finds at NODES_FILE
FileKinds == {"missing", "unparsable", "notlist", "list"}

Files == [kind : FileKinds \ {"list"}, nodes : {<<>>}]
           \cup [kind : {"list"}, nodes : SeqsUpTo(Entries, MaxNodes)]

OnlineStatus(v) == IF v = 1 THEN "online" ELSE "ONLINE"

OfflineStatus(v) == IF v = 1 THEN "offline" ELSE "OFFLINE"

\* A prober: its socket, its promise and (history) the event that ended it
NoProbe == [sock |-> "none", promise |-> "pending", event |-> "none"]

\* socket.destroy() in the connect / timeout / error listeners
ProbeDestroy(p) == [p EXCEPT !.sock = "destroyed"]

\* resolve(v): a promise settles once, later calls are no-ops
ProbeResolve(p, v) == IF p.promise = "pending" THEN [p EXCEPT !.promise = v] ELSE p

\* checkServerStatus(host) up to the return of the promise: the socket is
\* created, listeners attached, and socket.connect(80, host) either starts
\* the attempt or throws at once (catch: resolve offline, no destroy).
ProbeLaunch(v, throws) ==
  IF throws
    THEN [sock |-> "created", promise |-> OfflineStatus(v), event |-> "throw"]
    ELSE [sock |-> "connecting", promise |-> "pending", event |-> "none"]

\* the timeout listener destroys the socket and leaves the promise pending
OnProbeTimeoutNoResolve(p, v) == [ProbeDestroy(p) EXCEPT !.event = "timeout"]

\* socket.on('timeout', ...): socket.destroy(); resolve('offline')
OnProbeTimeout(p, v) ==
  ProbeResolve([ProbeDestroy(p) EXCEPT !.event = "timeout"], OfflineStatus(v))

\* node.ip throws a TypeError exactly when node is null
IpThrows(node) == node.isNull

\* The async map callback has rejected (before reaching checkServerStatus)
MapRejected(nodes) == \E i \in 1..Len(nodes) : IpThrows(nodes[i])

\* { ...node, status }
WithStatus(node, status) == [node |-> node, status |-> status]

\* Promise.all over the mapped promises, all fulfilled: values in input order
NodesWithStatus(nodes, ps) == [i \in 1..Len(nodes) |-> WithStatus(nodes[i], ps[i].promise)]

\* the batch is answered as soon as one promise has settled
AnySettled(ps) == \E i \in 1..Len(ps) : ps[i].promise # "pending"

\* Promise.all fulfils when every promise of the array has fulfilled
AllSettled(ps) == \A i \in 1..Len(ps) : ps[i].promise # "pending"

NoResponse == [status |-> 0, body |-> <<>>]

\* NextResponse.json(x) (status 200)
JsonOk(x) == [status |-> 200, body |-> x]

\* the catch answers like the POST handler's catch does
GetCatchAs500 == [status |-> 500, body |-> <<>>]

\* catch (e) { ...; return NextResponse.json([]) }
GetCatchResponse == JsonOk(<<>>)

VARIABLES
  variant,   \* which copy of the nodes route runs
  file,      \* NODES_FILE on disk
  gpc,       \* position of the GET handler
  nodes,     \* GET's local `nodes` (parsed list)
  probes,    \* one prober per launched map callback
  gresp      \* GET's response

gvars == <<variant, file, gpc, nodes, probes, gresp>>

GetInit ==
  /\ variant \in Variants
  /\ file \in Files
  /\ gpc = "start"
  /\ nodes = <<>>
  /\ probes = <<>>
  /\ gresp = NoResponse

\* await fs.access(NODES_FILE)
GetAccess ==
  /\ gpc = "start"
  /\ gpc' = IF file.kind = "missing" THEN "create" ELSE "read"
  /\ UNCHANGED <<variant, file, nodes, probes, gresp>>

\* catch { await fs.writeFile(NODES_FILE, '[]') }; a failing write is caught
\* by the outer catch
GetCreate ==
  /\ gpc = "create"
  /\ \E ok \in BOOLEAN :
       IF ok
         THEN /\ file' = [kind |-> "list", nodes |-> <<>>]
              /\ gpc' = "read"
              /\ gresp' = gresp
         ELSE /\ file' = file
              /\ gpc' = "done"
              /\ gresp' = GetCatchResponse
  /\ UNCHANGED <<variant, nodes, probes>>

\* readFile, JSON.parse, nodes.map(async ...) and the microtasks that follow:
\* a read/parse failure or a non-list lands in the outer catch; otherwise
\* every callback runs up to its first await, and a rejected callback makes
\* Promise.all reject before any socket event is handled.
GetRead ==
  /\ gpc = "read"
  /\ IF file.kind # "list"
       THEN /\ gpc' = "done"
            /\ gresp' = GetCatchResponse
            /\ UNCHANGED <<nodes, probes>>
       ELSE /\ nodes' = file.nodes
            /\ \E throws \in [1..Len(file.nodes) -> BOOLEAN] :
                 probes' = [i \in 1..Len(file.nodes) |->
                              IF IpThrows(file.nodes[i]) THEN NoProbe
                              ELSE ProbeLaunch(variant, throws[i])]
            /\ IF MapRejected(file.nodes)
                 THEN gpc' = "done" /\ gresp' = GetCatchResponse
                 ELSE gpc' = "probing" /\ gresp' = gresp
  /\ UNCHANGED <<variant, file>>

\* socket.on('connect')
ProbeConnect(i) ==
  /\ probes[i].sock = "connecting"
  /\ probes' = [probes EXCEPT ![i] =
                  ProbeResolve([ProbeDestroy(@) EXCEPT !.event = "connect"], OnlineStatus(variant))]
  /\ UNCHANGED <<variant, file, gpc, nodes, gresp>>

\* socket.on('timeout')
ProbeTimeout(i) ==
  /\ probes[i].sock = "connecting"
  /\ probes' = [probes EXCEPT ![i] = OnProbeTimeout(@, variant)]
  /\ UNCHANGED <<variant, file, gpc, nodes, gresp>>

\* socket.on('error')
ProbeError(i) ==
  /\ probes[i].sock = "connecting"
  /\ probes' = [probes EXCEPT ![i] =
                  ProbeResolve([ProbeDestroy(@) EXCEPT !.event = "error"], OfflineStatus(variant))]
  /\ UNCHANGED <<variant, file, gpc, nodes, gresp>>

\* the timer armed by socket.setTimeout(1500) before the connect call threw
\* fires on the socket the catch left behind: socket.destroy(), and
\* resolve('offline') on a promise that has settled already
ProbeLateTimeout(i) ==
  /\ probes[i].sock = "created"
  /\ probes' = [probes EXCEPT ![i] = ProbeResolve(ProbeDestroy(@), OfflineStatus(variant))]
  /\ UNCHANGED <<variant, file, gpc, nodes, gresp>>

\* await Promise.all(...) fulfils; return NextResponse.json(nodesWithStatus)
GetRespond ==
  /\ gpc = "probing"
  /\ AllSettled(probes)
  /\ gresp' = JsonOk(NodesWithStatus(nodes, probes))
  /\ gpc' = "done"
  /\ UNCHANGED <<variant, file, nodes, probes>>

\* =========================================================================
\* Diagnostics: tools route, POST
\* =========================================================================
ToolTypes == {"nslookup", "ping", "port", "ssl"}

\* a type the dispatcher does not know
OtherTypes == {"traceroute"}

\* "" stands for a missing (falsy) target
Targets == {"", "example.com"}

\* 0 stands for an unset or falsy port; 70000 is no legal TCP port
Ports == {0, 8443, 70000}

Requests ==
  [parses : {TRUE}, type : ToolTypes \cup OtherTypes, target : Targets, port : Ports]
    \cup [parses : {FALSE}, type : {"ping"}, target : {""}, port : {0}]

NoRequest == [parses |-> FALSE, type |-> "ping", target |-> "", port |-> 0]

\* err.message of a socket / TLS 'error' event
SocketErrors == {"connect ECONNREFUSED", "getaddrinfo ENOTFOUND"}

\* err.message of a failed dns.resolve4
DnsErrors == {"queryA ENOTFOUND example.com"}

Addresses == {"93.184.216.34", "93.184.216.35"}

\* what dns.resolve4 may hand back
AddressLists == {a \in SeqsUpTo(Addresses, 2) : Len(a) > 0}

MsPerDay == 1000 * 60 * 60 * 24

\* Date.now() when the request arrives; the clock then advances in ticks
StartInstant == 3 * MsPerDay

DateNow(c) == StartInstant + c

\* validTo.getTime() of the certificates the peer may present
ValidTos ==
  {StartInstant + o : o \in {0 - 2 * MsPerDay, 0 - MsPerDay - 1, 0 - MsPerDay,
                             0 - 1, 0, 1, 2, MsPerDay, MsPerDay + 1}}

\* socket.getPeerCertificate(): absent, an empty object, or a certificate
NoCert == [absent |-> TRUE, keys |-> 0, issuerO |-> "", validTo |-> 0]

EmptyCert == [absent |-> FALSE, keys |-> 0, issuerO |-> "", validTo |-> 0]

Certs == {NoCert, EmptyCert}
           \cup [absent : {FALSE}, keys : {1}, issuerO : {"Example CA"}, validTo : ValidTos]

\* Math.ceil(a / b) for b > 0 (String(-0) is "0")
Ceil(a, b) == 0 - ((0 - a) \div b)

\* an expired certificate is reported with 0 days
DaysRemainingClamped(validTo, now) ==
  IF Ceil(validTo - now, MsPerDay) < 0 THEN 0 ELSE Ceil(validTo - now, MsPerDay)

\* Math.ceil((validTo.getTime() - Date.now()) / (1000 * 60 * 60 * 24))
DaysRemaining(validTo, now) == Ceil(validTo - now, MsPerDay)

\* only the absent certificate is caught, the empty object is not
NoCertificateAbsentOnly(cert) == cert.absent

\* !cert || Object.keys(cert).length === 0
NoCertificate(cert) == cert.absent \/ cert.keys = 0

\* addresses.join(', '), as the sequence of its pieces
RECURSIVE Join(_)
Join(a) ==
  IF Len(a) = 0 THEN <<>>
  ELSE IF Len(a) = 1 THEN <<a[1]>>
  ELSE <<a[1], ", ">> \o Join(Tail(a))

\* ---- result lines (template and interpolated values)
NoResult == [kind |-> "none"]

\* only addresses[0] is reported
DnsRecordsFirstOnly(t, addrs) ==
  [kind |-> "DnsRecords", target |-> t, text |-> <<addrs[1]>>]

DnsRecords(t, addrs) == [kind |-> "DnsRecords", target |-> t, text |-> Join(addrs)]

DnsError(msg) == [kind |-> "DnsError", text |-> msg]

PingAlive(t, p, d) == [kind |-> "PingAlive", target |-> t, port |-> p, latency |-> d]

PingUnreachable(t) == [kind |-> "PingUnreachable", target |-> t, ports |-> {80, 443}]

PortOpen(p, t) == [kind |-> "PortOpen", target |-> t, port |-> p]

PortClosed(p, t, msg) == [kind |-> "PortClosed", target |-> t, port |-> p, text |-> msg]

SslSummary(t, cert, days) ==
  [kind |-> "SslSummary", target |-> t, issuer |-> cert.issuerO,
   validTo |-> cert.validTo, days |-> days]

SslFailed(msg) == [kind |-> "SslFailed", text |-> msg]

\* ---- responses
NoToolResponse == [status |-> 0, error |-> "", result |-> NoResult]

\* NextResponse.json({ result })
JsonResult(r) == [status |-> 200, error |-> "", result |-> r]

\* NextResponse.json({ error }, { status })
JsonError(msg, st) == [status |-> st, error |-> msg, result |-> NoResult]

TargetRequired == JsonError("Target is required", 400)

\* the unknown type is answered like an internal error
InvalidToolTypeAs500 == JsonError("Invalid tool type", 500)

InvalidToolType == JsonError("Invalid tool type", 400)

InternalServerError == JsonError("Internal Server Error", 500)

\* ---- sockets
SockIds == {"p80", "p443", "port", "ssl"}

NoSock ==
  [state |-> "none", port |-> 0, start |-> 0, ended |-> 0, outcome |-> "", err |-> "", by |-> ""]

\* new net.Socket(); start = Date.now(); ...; socket.connect(port, host)
OpenSock(p, now) ==
  [state |-> "connecting", port |-> p, start |-> now, ended |-> 0, outcome |-> "", err |-> "",
   by |-> ""]

\* the listener forgets socket.destroy()
SockLeftOpen(s, ev, now) == [s EXCEPT !.outcome = ev, !.ended = now]

\* socket.destroy() in the listener of event ev (ended: when, for the record)
SockDestroy(s, ev, now) ==
  [s EXCEPT !.state = "destroyed", !.outcome = ev, !.by = "check", !.ended = now]

\* the socket still holds a connection or an attempt
IsOpen(s) == s.state \in {"connecting", "open", "ended"}

\* Date.now() - start
Duration(s, now) == now - s.start

\* port ?? 80: a port of 0 is kept
TargetPortNullish(p) == p

\* port || 80
TargetPort(p) == IF p # 0 THEN p ELSE 80

\* socket.connect(port, host) throws at once on a port outside 0..65535
ConnectThrows(p) == p \notin 0..65535

\* error.message of the RangeError thrown by socket.connect
BadPortError == "ERR_SOCKET_BAD_PORT"

\* the socket of an attempt whose connect call threw: created, never opened
CreatedSock(p, now) ==
  [NoSock EXCEPT !.state = "created", !.port = p, !.start = now, !.outcome = "throw",
                 !.err = BadPortError]

\* the call is made a second time on the same port
AttemptTwice(atts, p) == Append(Append(atts, p), p)

\* one more dns.resolve4 / socket.connect / tls.connect call; port 0 stands
\* for a resolution
Attempt(atts, p) == Append(atts, p)

\* dns.resolve4's callback arguments (err, addresses)
NoAnswer == [ok |-> FALSE, addrs |-> <<>>, err |-> ""]

DnsAnswer(addrs) == [ok |-> TRUE, addrs |-> addrs, err |-> ""]

DnsFailure(msg) == [ok |-> FALSE, addrs |-> <<>>, err |-> msg]

\* ---- port: what the handler returns
PortOpenResponse(p, t) == JsonResult(PortOpen(p, t))

\* the line leaves error.message out
PortClosedNoCause(p, t, msg) == JsonResult(PortClosed(p, t, ""))

PortClosedResponse(p, t, msg) == JsonResult(PortClosed(p, t, msg))

\* ---- nslookup: what the handler returns
DnsSuccessResponse(t, addrs) == JsonResult(DnsRecords(t, addrs))

\* the failure lands in a 500 instead of a result line
DnsFailureEscapes(msg) == InternalServerError

DnsFailureResponse(msg) == JsonResult(DnsError(msg))

\* ---- ping: what the handler returns
PingFirstResult(t, d) == JsonResult(PingAlive(t, 80, d))

\* the 443 answer is reported under port 80
PingFallbackNames80(t, d) == JsonResult(PingAlive(t, 80, d))

\* the 443 answer is dropped and the check reports unreachable
PingFallbackDropped(t, d) == JsonResult(PingUnreachable(t))

PingFallbackResult(t, d) == JsonResult(PingAlive(t, 443, d))

PingBothFailed(t) == JsonResult(PingUnreachable(t))

VARIABLES
  req,        \* the request body
  tpc,        \* position of the POST handler
  tresp,      \* its response
  socks,      \* the sockets of the check
  sslPromise, \* the promise of the ssl check
  peerCert,   \* (history) what getPeerCertificate returned
  clock,      \* ticks since the request arrived
  attempts,   \* (history) the resolve / connect calls made, in order
  resolved    \* (history) what dns.resolve4 handed to its callback

tvars == <<req, tpc, tresp, socks, sslPromise, peerCert, clock, attempts, resolved>>

ToolsInit ==
  /\ req = NoRequest
  /\ tpc = "idle"
  /\ tresp = NoToolResponse
  /\ socks = [s \in SockIds |-> NoSock]
  /\ sslPromise = "none"
  /\ peerCert = NoCert
  /\ clock = 0
  /\ attempts = <<>>
  /\ resolved = NoAnswer

\* The handler up to its first await on the network: request.json(), the
\* target check and the dispatch on type.
PostReceive(r) ==
  /\ tpc = "idle"
  /\ req' = r
  /\ IF ~r.parses
       THEN /\ tpc' = "done"
            /\ tresp' = InternalServerError
            /\ UNCHANGED <<socks, sslPromise, attempts>>
     ELSE IF r.target = ""
       THEN /\ tpc' = "done"
            /\ tresp' = TargetRequired
            /\ UNCHANGED <<socks, sslPromise, attempts>>
     ELSE IF r.type = "nslookup"
       THEN /\ tpc' = "nslookup"
            /\ attempts' = Attempt(attempts, 0)
            /\ UNCHANGED <<tresp, socks, sslPromise>>
     ELSE IF r.type = "ping"
       THEN /\ tpc' = "ping80"
            /\ socks' = [socks EXCEPT !["p80"] = OpenSock(80, DateNow(clock))]
            /\ attempts' = Attempt(attempts, 80)
            /\ UNCHANGED <<tresp, sslPromise>>
     ELSE IF r.type = "port"
       THEN /\ IF ConnectThrows(TargetPort(r.port))
                 THEN /\ tpc' = "done"
                      /\ socks' = [socks EXCEPT !["port"] =
                                     CreatedSock(TargetPort(r.port), DateNow(clock))]
                      /\ tresp' = PortClosedResponse(TargetPort(r.port), r.target, BadPortError)
                 ELSE /\ tpc' = "port"
                      /\ socks' = [socks EXCEPT !["port"] =
                                     OpenSock(TargetPort(r.port), DateNow(clock))]
                      /\ tresp' = tresp
            /\ attempts' = Attempt(attempts, TargetPort(r.port))
            /\ UNCHANGED sslPromise
     ELSE IF r.type = "ssl"
       THEN /\ tpc' = "ssl"
            /\ socks' = [socks EXCEPT !["ssl"] = OpenSock(443, DateNow(clock))]
            /\ sslPromise' = "pending"
            /\ attempts' = Attempt(attempts, 443)
            /\ tresp' = tresp
     ELSE /\ tpc' = "done"
          /\ tresp' = InvalidToolType
          /\ UNCHANGED <<socks, sslPromise, attempts>>
  /\ UNCHANGED <<peerCert, clock, resolved>>

\* time passes
Tick ==
  /\ clock < MaxClock
  /\ tpc # "idle"
  /\ clock' = clock + 1
  /\ UNCHANGED <<req, tpc, tresp, socks, sslPromise, peerCert, attempts, resolved>>

\* ---- nslookup
DnsResolved(addrs) ==
  /\ tpc = "nslookup"
  /\ tresp' = DnsSuccessResponse(req.target, addrs)
  /\ resolved' = DnsAnswer(addrs)
  /\ tpc' = "done"
  /\ UNCHANGED <<req, socks, sslPromise, peerCert, clock, attempts>>

DnsFailed(msg) ==
  /\ tpc = "nslookup"
  /\ tresp' = DnsFailureResponse(msg)
  /\ resolved' = DnsFailure(msg)
  /\ tpc' = "done"
  /\ UNCHANGED <<req, socks, sslPromise, peerCert, clock, attempts>>

\* ---- ping: checkPort(target, 80), then checkPort(target, 443) in the catch
Ping80Connect ==
  /\ tpc = "ping80"
  /\ socks["p80"].state = "connecting"
  /\ socks' = [socks EXCEPT !["p80"] = SockDestroy(@, "connect", DateNow(clock))]
  /\ tresp' = PingFirstResult(req.target, Duration(socks["p80"], DateNow(clock)))
  /\ tpc' = "done"
  /\ UNCHANGED <<req, sslPromise, peerCert, clock, attempts, resolved>>

\* 'timeout' or 'error' on the port-80 socket: reject, and the inner catch
\* starts the port-443 attempt
Ping80Fail(ev) ==
  /\ tpc = "ping80"
  /\ socks["p80"].state = "connecting"
  /\ socks' = [socks EXCEPT !["p80"] = SockDestroy(@, ev, DateNow(clock)),
                            !["p443"] = OpenSock(443, DateNow(clock))]
  /\ attempts' = Attempt(attempts, 443)
  /\ tpc' = "ping443"
  /\ UNCHANGED <<req, tresp, sslPromise, peerCert, clock, resolved>>

Ping443Connect ==
  /\ tpc = "ping443"
  /\ socks["p443"].state = "connecting"
  /\ socks' = [socks EXCEPT !["p443"] = SockDestroy(@, "connect", DateNow(clock))]
  /\ tresp' = PingFallbackResult(req.target, Duration(socks["p443"], DateNow(clock)))
  /\ tpc' = "done"
  /\ UNCHANGED <<req, sslPromise, peerCert, clock, attempts, resolved>>

\* the rejection of the second checkPort reaches the outer catch
Ping443Fail(ev) ==
  /\ tpc = "ping443"
  /\ socks["p443"].state = "connecting"
  /\ socks' = [socks EXCEPT !["p443"] = SockDestroy(@, ev, DateNow(clock))]
  /\ tresp' = PingBothFailed(req.target)
  /\ tpc' = "done"
  /\ UNCHANGED <<req, sslPromise, peerCert, clock, attempts, resolved>>

\* ---- port
PortConnect ==
  /\ tpc = "port"
  /\ socks["port"].state = "connecting"
  /\ socks' = [socks EXCEPT !["port"] = SockDestroy(@, "connect", DateNow(clock))]
  /\ tresp' = PortOpenResponse(socks["port"].port, req.target)
  /\ tpc' = "done"
  /\ UNCHANGED <<req, sslPromise, peerCert, clock, attempts, resolved>>

PortTimeout ==
  /\ tpc = "port"
  /\ socks["port"].state = "connecting"
  /\ socks' = [socks EXCEPT !["port"] = SockDestroy(@, "timeout", DateNow(clock))]
  /\ tresp' = PortClosedResponse(socks["port"].port, req.target, "Timeout")
  /\ tpc' = "done"
  /\ UNCHANGED <<req, sslPromise, peerCert, clock, attempts, resolved>>

PortError(msg) ==
  /\ tpc = "port"
  /\ socks["port"].state = "connecting"
  /\ socks' = [socks EXCEPT !["port"] = [SockDestroy(@, "error", DateNow(clock)) EXCEPT !.err = msg]]
  /\ tresp' = PortClosedResponse(socks["port"].port, req.target, msg)
  /\ tpc' = "done"
  /\ UNCHANGED <<req, sslPromise, peerCert, clock, attempts, resolved>>

\* ---- ssl
\* resolve and reject always take effect, also on a settled promise
SettledNever(p) == FALSE

\* a promise settles once: resolve / reject on a settled promise are no-ops
Settled(p) == p # "pending"

\* the secureConnect callback of tls.connect and the continuation of the
\* await: no certificate -> reject (the socket is left as it is);
\* otherwise socket.end() and resolve with the summary
SslSocketAfterHandshake(s, cert, now) ==
  IF NoCertificate(cert)
    THEN [s EXCEPT !.state = "open", !.outcome = "connect", !.ended = now]
    ELSE [s EXCEPT !.state = "ended", !.outcome = "connect", !.by = "check", !.ended = now]

SslHandshakeResult(t, cert, now) ==
  IF NoCertificate(cert)
    THEN JsonResult(SslFailed("No certificate found"))
    ELSE JsonResult(SslSummary(t, cert, DaysRemaining(cert.validTo, now)))

SslSecureConnect(cert) ==
  /\ socks["ssl"].state = "connecting"
  /\ peerCert' = cert
  /\ socks' = [socks EXCEPT !["ssl"] = SslSocketAfterHandshake(@, cert, DateNow(clock))]
  /\ IF ~Settled(sslPromise)
       THEN /\ sslPromise' = IF NoCertificate(cert) THEN "rejected" ELSE "resolved"
            /\ tresp' = SslHandshakeResult(req.target, cert, DateNow(clock))
            /\ tpc' = "done"
       ELSE UNCHANGED <<sslPromise, tresp, tpc>>
  /\ UNCHANGED <<req, clock, attempts, resolved>>

\* socket.on('error'): reject(err); the runtime has torn the socket down
\* when it emits 'error', the listener itself releases nothing
SslError(msg) ==
  /\ IsOpen(socks["ssl"])
  /\ socks' = [socks EXCEPT !["ssl"] =
                 [@ EXCEPT !.state = "destroyed", !.by = IF @ = "" THEN "runtime" ELSE @]]
  /\ IF ~Settled(sslPromise)
       THEN /\ sslPromise' = "rejected"
            /\ tresp' = JsonResult(SslFailed(msg))
            /\ tpc' = "done"
       ELSE UNCHANGED <<sslPromise, tresp, tpc>>
  /\ UNCHANGED <<req, peerCert, clock, attempts, resolved>>

\* socket.setTimeout(3000, ...): socket.destroy(); reject(...)
SslTimeout ==
  /\ IsOpen(socks["ssl"])
  /\ socks' = [socks EXCEPT !["ssl"] =
                 [@ EXCEPT !.state = "destroyed", !.by = IF @ = "" THEN "check" ELSE @]]
  /\ IF ~Settled(sslPromise)
       THEN /\ sslPromise' = "rejected"
            /\ tresp' = JsonResult(SslFailed("Timeout connecting to SSL"))
            /\ tpc' = "done"
       ELSE UNCHANGED <<sslPromise, tresp, tpc>>
  /\ UNCHANGED <<req, peerCert, clock, attempts, resolved>>

\* after socket.end() the peer closes its side and the socket is closed
SslClose ==
  /\ socks["ssl"].state = "ended"
  /\ socks' = [socks EXCEPT !["ssl"] = [@ EXCEPT !.state = "destroyed"]]
  /\ UNCHANGED <<req, tpc, tresp, sslPromise, peerCert, clock, attempts, resolved>>

\* =========================================================================
\* Registration: nodes route, POST (concurrent handlers over NODES_FILE)
\* =========================================================================
Handlers == {1, 2}

\* the ip of the request body; "" stands for a missing name or ip
RegIps == {"", "10.0.0.1", "10.0.0.2"}

\* id: `node_${Date.now()}` in the first copy, Date.now().toString() in the
\* second
NodeId(v, now) == IF v = 1 THEN "node_" \o ToString(now) ELSE ToString(now)

\* status: 'offline' in the first copy, 'PENDING' in the second
StoredStatus(v) == IF v = 1 THEN "offline" ELSE "PENDING"

\* newNode (name, lat, lng and region do not bear on the registry's shape)
NewNode(v, ip, now) ==
  [isNull |-> FALSE, id |-> NodeId(v, now), ip |-> ip, status |-> StoredStatus(v)]

NoNode == [isNull |-> TRUE, id |-> "", ip |-> "", status |-> ""]

NoRegResponse == [status |-> 0, node |-> NoNode]

\* NextResponse.json(newNode, { status: 201 })
Created(n) == [status |-> 201, node |-> n]

\* NextResponse.json({ error: 'Name and IP are required' }, { status: 400 })
NameAndIpRequired == [status |-> 400, node |-> NoNode]

\* NextResponse.json({ error: 'Internal Server Error' }, { status: 500 })
RegInternalError == [status |-> 500, node |-> NoNode]

\* let nodes = []; try { nodes = JSON.parse(await readFile) } catch {}
RegParsed(f) == IF f.kind = "list" THEN f.nodes ELSE <<>>

\* JSON.parse gave a value without push (an object, a number, null)
PushThrows(f) == f.kind = "notlist"

VARIABLES
  ppc,      \* position of each POST handler
  pip,      \* the ip of its request
  pnodes,   \* its local `nodes` after the push
  pnew,     \* its newNode
  presp,    \* its response
  rnow      \* ticks of Date.now() since the first request

rvars == <<ppc, pip, pnodes, pnew, presp, rnow>>

RegInit ==
  /\ ppc = [h \in Handlers |-> "idle"]
  /\ pip = [h \in Handlers |-> ""]
  /\ pnodes = [h \in Handlers |-> <<>>]
  /\ pnew = [h \in Handlers |-> NoNode]
  /\ presp = [h \in Handlers |-> NoRegResponse]
  /\ rnow = 0

\* req.json(), the check of name and ip, and the geolocation lookup (which
\* only fills lat, lng and region)
RegReceive(h, ip) ==
  /\ ppc[h] = "idle"
  /\ pip' = [pip EXCEPT ![h] = ip]
  /\ IF ip = ""
       THEN /\ ppc' = [ppc EXCEPT ![h] = "done"]
            /\ presp' = [presp EXCEPT ![h] = NameAndIpRequired]
       ELSE /\ ppc' = [ppc EXCEPT ![h] = "read"]
            /\ presp' = presp
  /\ UNCHANGED <<pnodes, pnew, rnow, file>>

\* readFile settles: parse (or keep []), build newNode with the clock's
\* reading, push, and start writeFile; a parsed value without push throws
\* into the outer catch
RegRead(h) ==
  /\ ppc[h] = "read"
  /\ IF PushThrows(file)
       THEN /\ ppc' = [ppc EXCEPT ![h] = "done"]
            /\ presp' = [presp EXCEPT ![h] = RegInternalError]
            /\ UNCHANGED <<pnodes, pnew>>
       ELSE /\ ppc' = [ppc EXCEPT ![h] = "write"]
            /\ pnew' = [pnew EXCEPT ![h] = NewNode(variant, pip[h], DateNow(rnow))]
            /\ pnodes' = [pnodes EXCEPT ![h] =
                            Append(RegParsed(file), NewNode(variant, pip[h], DateNow(rnow)))]
            /\ presp' = presp
  /\ UNCHANGED <<pip, rnow, file>>

\* writeFile settles: the file now holds this handler's list
RegWrite(h) ==
  /\ ppc[h] = "write"
  /\ \E ok \in BOOLEAN :
       IF ok
         THEN /\ file' = [kind |-> "list", nodes |-> pnodes[h]]
              /\ presp' = [presp EXCEPT ![h] = Created(pnew[h])]
         ELSE /\ file' = file
              /\ presp' = [presp EXCEPT ![h] = RegInternalError]
  /\ ppc' = [ppc EXCEPT ![h] = "done"]
  /\ UNCHANGED <<pip, pnodes, pnew, rnow>>

\* a millisecond passes
RegTick ==
  /\ rnow < MaxClock
  /\ rnow' = rnow + 1
  /\ UNCHANGED <<ppc, pip, pnodes, pnew, presp, file>>

\* the GET handler's variables other than the file
gvarsButFile == <<variant, gpc, nodes, probes, gresp>>

\* =========================================================================
\* Dashboard: fetchData's list of custom nodes
\* =========================================================================
\* n.status === 'online' ? 'online' : 'offline'
DashboardStatus(st) == IF st = "online" THEN "online" ELSE "offline"

\* customNodesRaw.map(n => ({ id: n.id, ..., status: ..., type: 'custom' }))
CustomNodes(raw) ==
  [i \in 1..Len(raw) |-> [node |-> raw[i].node, status |-> DashboardStatus(raw[i].status)]]

NoDash == [shown |-> FALSE, list |-> <<>>]

VARIABLES
  dash      \* the custom nodes of the dashboard's `nodes` state

dvars == <<dash>>

DashInit == dash = NoDash

\* fetch('/api/nodes') has answered: map the entries and setNodes
FetchData ==
  /\ gpc = "done"
  /\ ~dash.shown
  /\ dash' = [shown |-> TRUE, list |-> CustomNodes(gresp.body)]

\* =========================================================================
\* Network Tools panel: ToolsPanel.runTool
\* =========================================================================
\* what the target input may hold; "" makes runTool return at once
PanelTargets == {"", "example.com"}

\* useState<string | null>(null)
NoPanelResult == [run |-> 0, text |-> "null"]

\* setResult(data.result || data.error): the text of the response to run k
ResponseTo(k) == [run |-> k, text |-> "response"]

\* catch: setResult("Error executing command.")
FetchFailed(k) == [run |-> k, text |-> "Error executing command."]

\* a run of runTool between its fetch and the response
NewRun(tool, target) == [tool |-> tool, target |-> target, state |-> "pending"]

VARIABLES
  panel     \* ToolsPanel's state: target, activeTool, result, loading, and
            \* the runs of runTool started so far

pvars == <<panel>>

PanelInit ==
  panel = [target |-> "", activeTool |-> "ping", result |-> NoPanelResult,
           loading |-> FALSE, runs |-> <<>>]

\* onChange of the target input
SetTarget(t) ==
  /\ panel.target # t
  /\ panel' = [panel EXCEPT !.target = t]

\* onClick of a tool button
SetActiveTool(t) ==
  /\ panel.activeTool # t
  /\ panel' = [panel EXCEPT !.activeTool = t]

\* runTool up to its await, started by the button (disabled while loading)
\* or by the Enter key (never disabled)
RunTool(byKey) ==
  /\ Len(panel.runs) < MaxRuns
  /\ byKey \/ ~panel.loading
  /\ panel.target # ""
  /\ panel' = [panel EXCEPT !.loading = TRUE,
                            !.result = NoPanelResult,
                            !.runs = Append(@, NewRun(panel.activeTool, panel.target))]

\* the response to run k arrives: setResult(...), finally setLoading(false)
RunResponds(k) ==
  /\ panel.runs[k].state = "pending"
  /\ panel' = [panel EXCEPT !.runs[k].state = "answered",
                            !.result = ResponseTo(k),
                            !.loading = FALSE]

\* the fetch of run k rejects: catch, finally
RunFails(k) ==
  /\ panel.runs[k].state = "pending"
  /\ panel' = [panel EXCEPT !.runs[k].state = "failed",
                            !.result = FetchFailed(k),
                            !.loading = FALSE]

\* =========================================================================
\* Service status route: GET over SERVICES
\* =========================================================================
\* the ids of SERVICES, in the order of the list
SERVICES == <<"mad", "nyc", "tok", "lon">>

\* Math.round(performance.now() - start)
Latencies == {0, 42}

\* a map callback that has not returned yet
NoCheck == [id |-> "", status |-> "pending", latency |-> 0, outcome |-> "none"]

\* the entry returned after the fetch fulfilled: res.ok ? 'online' : 'error'
ServiceAnswered(id, ok, latency) ==
  [id |-> id, status |-> IF ok THEN "online" ELSE "error", latency |-> latency,
   outcome |-> "answered"]

\* the entry returned by the catch
ServiceUnreachable(id) ==
  [id |-> id, status |-> "error", latency |-> 0, outcome |-> "threw"]

\* a callback that threw rejects, and its entry is missing from the results
ResultsWithoutThrown(cs) == SelectSeq(cs, LAMBDA c : c.outcome # "threw")

\* Promise.all over the callbacks' promises: their values, in input order
ServiceResults(cs) == cs

NoSvcResponse == [status |-> 0, nodes |-> <<>>]

VARIABLES
  svc       \* the service status GET: position, callbacks, response

svars == <<svc>>

SvcInit == svc = [pc |-> "idle", checks |-> <<>>, resp |-> NoSvcResponse]

\* SERVICES.map(async ...): every callback runs up to its fetch
SvcStart ==
  /\ svc.pc = "idle"
  /\ svc' = [svc EXCEPT !.pc = "fetching", !.checks = [i \in 1..Len(SERVICES) |-> NoCheck]]

\* the fetch of service i fulfils (whatever the HTTP status)
SvcFetchFulfils(i, ok, latency) ==
  /\ svc.pc = "fetching"
  /\ svc.checks[i].status = "pending"
  /\ svc' = [svc EXCEPT !.checks[i] = ServiceAnswered(SERVICES[i], ok, latency)]

\* the fetch of service i rejects
SvcFetchThrows(i) ==
  /\ svc.pc = "fetching"
  /\ svc.checks[i].status = "pending"
  /\ svc' = [svc EXCEPT !.checks[i] = ServiceUnreachable(SERVICES[i])]

\* Promise.all fulfils; NextResponse.json({ timestamp, nodes: results })
SvcRespond ==
  /\ svc.pc = "fetching"
  /\ \A i \in 1..Len(svc.checks) : svc.checks[i].status # "pending"
  /\ svc' = [svc EXCEPT !.pc = "done",
                        !.resp = [status |-> 200, nodes |-> ServiceResults(svc.checks)]]

\* =========================================================================
\* Dashboard scene: OpsGlobeScene's selection and filters
\* =========================================================================
\* SERVERS: id and status of each entry
SERVERS ==
  { [id |-> "mad", status |-> "online"], [id |-> "nyc", status |-> "online"],
    [id |-> "sfo", status |-> "warning"], [id |-> "lon", status |-> "error"],
    [id |-> "fra", status |-> "online"], [id |-> "sao", status |-> "warning"],
    [id |-> "jnb", status |-> "online"], [id |-> "blr", status |-> "online"],
    [id |-> "tok", status |-> "online"], [id |-> "syd", status |-> "warning"] }

\* the values of the status buttons
StatusFilters == {"all", "online", "warning", "error"}

\* what the search input may hold
Searches == {"", "  ", "Edge", " US ", "zz"}

\* search.trim().toLowerCase()
SearchTerm(raw) ==
  CASE raw = "Edge" -> "edge"
    [] raw = " US " -> "us"
    [] raw = "zz" -> "zz"
    [] OTHER -> ""

\* the entries whose lower-cased name, location or region includes the term
Including(term) ==
  CASE term = "edge" -> {"sfo", "tok"}
    [] term = "us" -> {"nyc", "sfo"}
    [] OTHER -> {}

\* filteredNodes: matchesStatus && matchesSearch
FilteredNodes(search, statusFilter) ==
  {n \in SERVERS :
     /\ statusFilter = "all" \/ n.status = statusFilter
     /\ SearchTerm(search) = "" \/ n.id \in Including(SearchTerm(search))}

\* selectedNode === null
NoSelection == ""

\* the effect leaves the selection as it is
SelectionKept(sel, filtered) == sel

\* useEffect: if (selectedNode && !filteredNodes.some(id equal))
\* setSelectedNode(null)
SelectionAfterEffect(sel, filtered) ==
  IF sel # NoSelection /\ ~(\E n \in filtered : n.id = sel) THEN NoSelection ELSE sel

VARIABLES
  scene     \* OpsGlobeScene's state: selectedNode (by id), statusFilter,
            \* search, whether the effect is still to run after a render,
            \* and (history) what cleared the selection last

cvars == <<scene>>

SceneInit ==
  scene = [selected |-> NoSelection, statusFilter |-> "all", search |-> "",
           effectPending |-> TRUE, clearedBy |-> "none"]

\* onClick of a marker or of a list button: both render filteredNodes only
SelectNode(n) ==
  /\ n \in FilteredNodes(scene.search, scene.statusFilter)
  /\ scene.selected # n.id
  /\ scene' = [scene EXCEPT !.selected = n.id, !.effectPending = TRUE]

\* onClick of the globe or of the close button: setSelectedNode(null)
ClearSelection ==
  /\ scene.selected # NoSelection
  /\ scene' = [scene EXCEPT !.selected = NoSelection, !.effectPending = TRUE,
                            !.clearedBy = "user"]

\* onChange of the search input
SetSearch(raw) ==
  /\ scene.search # raw
  /\ scene' = [scene EXCEPT !.search = raw, !.effectPending = TRUE]

\* onClick of a status button
SetStatusFilter(f) ==
  /\ scene.statusFilter # f
  /\ scene' = [scene EXCEPT !.statusFilter = f, !.effectPending = TRUE]

\* the effect runs after the render; clearing the selection renders again
\* and the effect then finds nothing to do
RunEffect ==
  /\ scene.effectPending
  /\ LET filtered == FilteredNodes(scene.search, scene.statusFilter)
         sel == SelectionAfterEffect(scene.selected, filtered)
     IN  scene' = [scene EXCEPT !.selected = sel,
                                !.effectPending = FALSE,
                                !.clearedBy = IF sel # scene.selected THEN "effect" ELSE @]

\* =========================================================================
\* Specifications
\* =========================================================================
vars ==
  <<variant, file, gpc, nodes, probes, gresp,
    req, tpc, tresp, socks, sslPromise, peerCert, clock, attempts, resolved,
    ppc, pip, pnodes, pnew, presp, rnow,
    dash, panel, svc, scene>>

\* what the actions of each route or component leave alone
GetFrame == <<tvars, rvars, dvars, pvars, svars, cvars>>

ToolsFrame == <<gvars, rvars, dvars, pvars, svars, cvars>>

RegFrame == <<gvarsButFile, tvars, dvars, pvars, svars, cvars>>

DashFrame == <<gvars, tvars, rvars, pvars, svars, cvars>>

PanelFrame == <<gvars, tvars, rvars, dvars, svars, cvars>>

SvcFrame == <<gvars, tvars, rvars, dvars, pvars, cvars>>

SceneFrame == <<gvars, tvars, rvars, dvars, pvars, svars>>

\* the browser components before any event
UiIdle == DashInit /\ PanelInit /\ SceneInit

GetIdle ==
  /\ variant = 1
  /\ file = [kind |-> "missing", nodes |-> <<>>]
  /\ gpc = "start"
  /\ nodes = <<>>
  /\ probes = <<>>
  /\ gresp = NoResponse

InitGet == GetInit /\ ToolsInit /\ RegInit /\ UiIdle /\ SvcInit

InitTools == ToolsInit /\ GetIdle /\ RegInit /\ UiIdle /\ SvcInit

NextGet ==
  \/ GetAccess /\ UNCHANGED GetFrame
  \/ GetCreate /\ UNCHANGED GetFrame
  \/ GetRead /\ UNCHANGED GetFrame
  \/ \E i \in 1..Len(probes) : ProbeConnect(i) /\ UNCHANGED GetFrame
  \/ \E i \in 1..Len(probes) : ProbeTimeout(i) /\ UNCHANGED GetFrame
  \/ \E i \in 1..Len(probes) : ProbeError(i) /\ UNCHANGED GetFrame
  \/ \E i \in 1..Len(probes) : ProbeLateTimeout(i) /\ UNCHANGED GetFrame
  \/ GetRespond /\ UNCHANGED GetFrame

NextTools ==
  \/ \E r \in Requests : PostReceive(r) /\ UNCHANGED ToolsFrame
  \/ Tick /\ UNCHANGED ToolsFrame
  \/ \E a \in AddressLists : DnsResolved(a) /\ UNCHANGED ToolsFrame
  \/ \E m \in DnsErrors : DnsFailed(m) /\ UNCHANGED ToolsFrame
  \/ Ping80Connect /\ UNCHANGED ToolsFrame
  \/ \E ev \in {"timeout", "error"} : Ping80Fail(ev) /\ UNCHANGED ToolsFrame
  \/ Ping443Connect /\ UNCHANGED ToolsFrame
  \/ \E ev \in {"timeout", "error"} : Ping443Fail(ev) /\ UNCHANGED ToolsFrame
  \/ PortConnect /\ UNCHANGED ToolsFrame
  \/ PortTimeout /\ UNCHANGED ToolsFrame
  \/ \E m \in SocketErrors : PortError(m) /\ UNCHANGED ToolsFrame
  \/ \E c \in Certs : SslSecureConnect(c) /\ UNCHANGED ToolsFrame
  \/ \E m \in SocketErrors : SslError(m) /\ UNCHANGED ToolsFrame
  \/ SslTimeout /\ UNCHANGED ToolsFrame
  \/ SslClose /\ UNCHANGED ToolsFrame

SpecGet == InitGet /\ [][NextGet]_vars

SpecTools == InitTools /\ [][NextTools]_vars

\* socket.setTimeout(1500): the timer of a socket that is still connecting
\* fires
TimerFires(i) == i \in DOMAIN probes /\ ProbeTimeout(i) /\ UNCHANGED GetFrame

SpecGetLive == InitGet /\ [][NextGet]_vars /\ \A i \in 1..MaxNodes : WF_vars(TimerFires(i))

\* One GET over a registry of one node and one POST in the same process:
\* every kind of connect attempt (prober, ping, port, ssl)
AttemptsInit ==
  /\ ToolsInit
  /\ RegInit
  /\ UiIdle
  /\ SvcInit
  /\ GetInit
  /\ file.kind = "list"
  /\ Len(file.nodes) = 1
  /\ ~file.nodes[1].isNull

NextAttempts ==
  \/ GetAccess /\ UNCHANGED GetFrame
  \/ GetRead /\ UNCHANGED GetFrame
  \/ \E i \in 1..Len(probes) : ProbeConnect(i) /\ UNCHANGED GetFrame
  \/ \E i \in 1..Len(probes) : ProbeTimeout(i) /\ UNCHANGED GetFrame
  \/ \E i \in 1..Len(probes) : ProbeError(i) /\ UNCHANGED GetFrame
  \/ \E i \in 1..Len(probes) : ProbeLateTimeout(i) /\ UNCHANGED GetFrame
  \/ GetRespond /\ UNCHANGED GetFrame
  \/ \E r \in Requests : PostReceive(r) /\ UNCHANGED ToolsFrame
  \/ Tick /\ UNCHANGED ToolsFrame
  \/ \E a \in AddressLists : DnsResolved(a) /\ UNCHANGED ToolsFrame
  \/ \E m \in DnsErrors : DnsFailed(m) /\ UNCHANGED ToolsFrame
  \/ Ping80Connect /\ UNCHANGED ToolsFrame
  \/ \E ev \in {"timeout", "error"} : Ping80Fail(ev) /\ UNCHANGED ToolsFrame
  \/ Ping443Connect /\ UNCHANGED ToolsFrame
  \/ \E ev \in {"timeout", "error"} : Ping443Fail(ev) /\ UNCHANGED ToolsFrame
  \/ PortConnect /\ UNCHANGED ToolsFrame
  \/ PortTimeout /\ UNCHANGED ToolsFrame
  \/ \E m \in SocketErrors : PortError(m) /\ UNCHANGED ToolsFrame
  \/ \E c \in Certs : SslSecureConnect(c) /\ UNCHANGED ToolsFrame
  \/ \E m \in SocketErrors : SslError(m) /\ UNCHANGED ToolsFrame
  \/ SslTimeout /\ UNCHANGED ToolsFrame
  \/ SslClose /\ UNCHANGED ToolsFrame

SpecAttempts == AttemptsInit /\ [][NextAttempts]_vars

\* Two registrations and one GET against the same registry file
RegistryInit ==
  /\ RegInit
  /\ UiIdle
  /\ SvcInit
  /\ ToolsInit
  /\ GetInit
  /\ file \in {[kind |-> "missing", nodes |-> <<>>], [kind |-> "list", nodes |-> <<>>],
               [kind |-> "notlist", nodes |-> <<>>]}

NextRegistry ==
  \/ \E h \in Handlers : \E ip \in RegIps : RegReceive(h, ip) /\ UNCHANGED RegFrame
  \/ \E h \in Handlers : RegRead(h) /\ UNCHANGED RegFrame
  \/ \E h \in Handlers : RegWrite(h) /\ UNCHANGED RegFrame
  \/ RegTick /\ UNCHANGED RegFrame
  \/ GetAccess /\ UNCHANGED GetFrame
  \/ GetCreate /\ UNCHANGED GetFrame
  \/ GetRead /\ UNCHANGED GetFrame
  \/ \E i \in 1..Len(probes) : ProbeConnect(i) /\ UNCHANGED GetFrame
  \/ \E i \in 1..Len(probes) : ProbeTimeout(i) /\ UNCHANGED GetFrame
  \/ \E i \in 1..Len(probes) : ProbeError(i) /\ UNCHANGED GetFrame
  \/ \E i \in 1..Len(probes) : ProbeLateTimeout(i) /\ UNCHANGED GetFrame
  \/ GetRespond /\ UNCHANGED GetFrame

SpecRegistry == RegistryInit /\ [][NextRegistry]_vars

\* The dashboard polls the nodes route: one GET, then fetchData's mapping
NextDashboard ==
  \/ GetAccess /\ UNCHANGED GetFrame
  \/ GetCreate /\ UNCHANGED GetFrame
  \/ GetRead /\ UNCHANGED GetFrame
  \/ \E i \in 1..Len(probes) : ProbeConnect(i) /\ UNCHANGED GetFrame
  \/ \E i \in 1..Len(probes) : ProbeTimeout(i) /\ UNCHANGED GetFrame
  \/ \E i \in 1..Len(probes) : ProbeError(i) /\ UNCHANGED GetFrame
  \/ \E i \in 1..Len(probes) : ProbeLateTimeout(i) /\ UNCHANGED GetFrame
  \/ GetRespond /\ UNCHANGED GetFrame
  \/ FetchData /\ UNCHANGED DashFrame

SpecDashboard == InitGet /\ [][NextDashboard]_vars

\* every component and route before its first event
AllIdle == ToolsInit /\ GetIdle /\ RegInit /\ UiIdle /\ SvcInit

NextPanel ==
  \/ \E t \in PanelTargets : SetTarget(t) /\ UNCHANGED PanelFrame
  \/ \E t \in ToolTypes : SetActiveTool(t) /\ UNCHANGED PanelFrame
  \/ \E byKey \in BOOLEAN : RunTool(byKey) /\ UNCHANGED PanelFrame
  \/ \E k \in 1..Len(panel.runs) : RunResponds(k) /\ UNCHANGED PanelFrame
  \/ \E k \in 1..Len(panel.runs) : RunFails(k) /\ UNCHANGED PanelFrame

SpecPanel == AllIdle /\ [][NextPanel]_vars

NextServices ==
  \/ SvcStart /\ UNCHANGED SvcFrame
  \/ \E i \in 1..Len(SERVICES) : \E ok \in BOOLEAN : \E l \in Latencies :
       SvcFetchFulfils(i, ok, l) /\ UNCHANGED SvcFrame
  \/ \E i \in 1..Len(SERVICES) : SvcFetchThrows(i) /\ UNCHANGED SvcFrame
  \/ SvcRespond /\ UNCHANGED SvcFrame

SpecServices == AllIdle /\ [][NextServices]_vars

NextScene ==
  \/ \E n \in SERVERS : SelectNode(n) /\ UNCHANGED SceneFrame
  \/ ClearSelection /\ UNCHANGED SceneFrame
  \/ \E raw \in Searches : SetSearch(raw) /\ UNCHANGED SceneFrame
  \/ \E f \in StatusFilters : SetStatusFilter(f) /\ UNCHANGED SceneFrame
  \/ RunEffect /\ UNCHANGED SceneFrame

SpecScene == AllIdle /\ [][NextScene]_vars

\* =========================================================================
\* Claims
\* =========================================================================
FailEvents == {"timeout", "error"}

PingDone == tpc = "done" /\ req.parses /\ req.target # "" /\ req.type = "ping"

SslDone == tpc = "done" /\ req.parses /\ req.target # "" /\ req.type = "ssl"

\* C1: when the GET handler has answered for a list of N entries, the
\* response holds exactly N results and the i-th result is built from the
\* i-th entry, whatever the order and outcome of the probes' events.
C1_FanOutKeepsLengthAndOrder ==
  gpc = "done" =>
    /\ Len(gresp.body) = Len(nodes)
    /\ \A i \in 1..Len(nodes) : gresp.body[i].node = nodes[i]

\* C2: bulkhead isolation: when the GET handler has answered, every entry
\* that carries a probe (whatever happened to the other entries of the
\* batch) has the result of its own probe at its own place in the response.
C2_BulkheadIsolation ==
  gpc = "done" =>
    \A i \in 1..Len(nodes) :
      ~nodes[i].isNull =>
        /\ i <= Len(gresp.body)
        /\ probes[i].promise # "pending"
        /\ gresp.body[i].status = probes[i].promise

\* C3: for each of the four kinds and a non-empty target, the POST handler
\* ends with a 200 response carrying a result line, whatever the network
\* outcome was.
C3_ChecksAlwaysAnswerWithResult ==
  (tpc = "done" /\ req.parses /\ req.target # "" /\ req.type \in ToolTypes) =>
    /\ tresp.status = 200
    /\ tresp.result.kind # "none"
    /\ tresp.error = ""

\* C3 witness: a check has failed on the network and the handler has answered
C3_Witness ==
  /\ tpc = "done"
  /\ req.type \in ToolTypes
  /\ tresp.result.kind \in {"DnsError", "PingUnreachable", "PortClosed", "SslFailed"}

\* C4 (as stated): 400 is answered only when the target is missing, and every
\* parsed request with a target gets 200, whatever its type.
C4_Only400WhenTargetMissing ==
  tpc = "done" =>
    /\ tresp.status = 400 => req.target = ""
    /\ (req.parses /\ req.target # "") => tresp.status = 200

\* C4 (amended): 400 is answered exactly when the parsed request has no target
\* or has a type that is none of nslookup, ping, port, ssl; every parsed
\* request with a target and one of the four types gets 200.
C4_400IffTargetMissingOrUnknownType ==
  tpc = "done" =>
    /\ tresp.status = 400 <=> (req.parses /\ (req.target = "" \/ req.type \notin ToolTypes))
    /\ (req.parses /\ req.target # "" /\ req.type \in ToolTypes) => tresp.status = 200

\* C4 witness: a request with a target and an unknown type has been answered
C4_Witness ==
  /\ tpc = "done"
  /\ req.parses
  /\ req.target # ""
  /\ req.type \notin ToolTypes
  /\ tresp.status = 400

\* C5: in a ping check the port-443 attempt exists only once the port-80
\* attempt has ended in timeout or error and its socket is destroyed; the two
\* sockets are never open together; a port-80 connect means no 443 attempt.
C5_PingPortsStrictlySequential ==
  /\ ~(IsOpen(socks["p80"]) /\ IsOpen(socks["p443"]))
  /\ socks["p443"].state # "none" =>
       /\ socks["p80"].state = "destroyed"
       /\ socks["p80"].outcome \in FailEvents
       /\ socks["p80"].ended <= socks["p443"].start
  /\ socks["p80"].outcome = "connect" => socks["p443"].state = "none"

\* C5 witness: the port-443 attempt is in flight after the port-80 failure
C5_Witness ==
  /\ socks["p443"].state = "connecting"
  /\ socks["p80"].outcome \in FailEvents

\* C6: when port 80 failed and port 443 connected, ping reports ALIVE with
\* port 443 and the latency of the 443 attempt alone (from its own start to
\* its connect), and never names port 80.
C6_FallbackReportsPort443 ==
  (PingDone /\ socks["p80"].outcome \in FailEvents /\ socks["p443"].outcome = "connect") =>
    /\ tresp.status = 200
    /\ tresp.result.kind = "PingAlive"
    /\ tresp.result.port = 443
    /\ tresp.result.latency = socks["p443"].ended - socks["p443"].start

\* C6 witness: 443 answered after 80 failed, time having passed in both attempts
C6_Witness ==
  /\ PingDone
  /\ socks["p80"].outcome \in FailEvents
  /\ socks["p443"].outcome = "connect"
  /\ socks["p80"].ended > socks["p80"].start
  /\ socks["p443"].ended > socks["p443"].start

\* C7: ping reports unreachable exactly when both the port-80 and the
\* port-443 attempt failed, and that result carries no latency.
C7_UnreachableIffBothFail ==
  PingDone =>
    /\ (socks["p80"].outcome \in FailEvents /\ socks["p443"].outcome \in FailEvents)
         <=> tresp.result.kind = "PingUnreachable"
    /\ tresp.result.kind = "PingUnreachable" => "latency" \notin DOMAIN tresp.result
    /\ tresp.status = 200

\* C7 witness: both attempts failed and the handler has answered
C7_Witness ==
  /\ PingDone
  /\ socks["p80"].outcome = "timeout"
  /\ socks["p443"].outcome = "error"

\* C8: a certificate whose expiry instant lies before the instant of the
\* check, by any amount, is reported with strictly negative days remaining.
C8_ExpiredCertNegativeDays ==
  (SslDone /\ tresp.result.kind = "SslSummary"
     /\ tresp.result.validTo < socks["ssl"].ended) =>
    tresp.result.days < 0

\* C9: a handshake that completes with an absent or empty peer certificate
\* yields the failure line "No certificate found", never a summary.
C9_NoCertificateIsFailure ==
  (socks["ssl"].outcome = "connect" /\ (peerCert.absent \/ peerCert.keys = 0)) =>
    /\ tpc = "done"
    /\ tresp = JsonResult(SslFailed("No certificate found"))

\* C9 witness: the handshake completed with an empty certificate object
C9_Witness ==
  /\ SslDone
  /\ socks["ssl"].outcome = "connect"
  /\ ~peerCert.absent
  /\ peerCert.keys = 0

\* C10: when the ssl check has returned its result, its TLS socket is closed
\* or destroyed on every path.
C10_SslSocketReleasedOnReturn ==
  SslDone => socks["ssl"].state \in {"ended", "destroyed"}

PortDone == tpc = "done" /\ req.parses /\ req.target # "" /\ req.type = "port"

\* C11: the port check makes one connect call, to the request's port when
\* it is truthy and to 80 otherwise; it reports OPEN exactly when that attempt
\* connected and CLOSED/FILTERED otherwise, and names the port it probed.
C11_PortCheckProbesRequestedPort ==
  PortDone =>
    /\ attempts = <<IF req.port # 0 THEN req.port ELSE 80>>
    /\ socks["port"].port = attempts[1]
    /\ \A id \in SockIds \ {"port"} : socks[id].state = "none"
    /\ tresp.result.kind \in {"PortOpen", "PortClosed"}
    /\ tresp.result.kind = "PortOpen" <=> socks["port"].outcome = "connect"
    /\ tresp.result.port = socks["port"].port

\* C11 witness: no port in the request, the attempt to port 80 connected
C11_Witness ==
  /\ PortDone
  /\ req.port = 0
  /\ socks["port"].outcome = "connect"
  /\ tresp.result.kind = "PortOpen"
  /\ tresp.result.port = 80

\* C12: the CLOSED/FILTERED line tells its cause: it carries "Timeout"
\* exactly after a timeout, the refusal message exactly after a refusal, and
\* after any socket error the message of that error.
C12_PortClosedCauseDistinguishable ==
  (PortDone /\ tresp.result.kind = "PortClosed") =>
    /\ socks["port"].outcome = "timeout" <=> tresp.result.text = "Timeout"
    /\ socks["port"].outcome \in {"error", "throw"} => tresp.result.text = socks["port"].err
    /\ (socks["port"].outcome = "error" /\ socks["port"].err = "connect ECONNREFUSED")
         <=> tresp.result.text = "connect ECONNREFUSED"

\* C12 witness: the port check has ended by timeout
C12_Witness ==
  /\ PortDone
  /\ socks["port"].outcome = "timeout"
  /\ tresp.result.kind = "PortClosed"

\* C13: when the port check has returned, after connect, timeout or socket
\* error, its socket has been destroyed by the listener; no socket is open.
C13_PortSocketDestroyedOnReturn ==
  PortDone =>
    /\ ~IsOpen(socks["port"])
    /\ socks["port"].outcome \in {"connect", "timeout", "error"} =>
         (socks["port"].state = "destroyed" /\ socks["port"].by = "check")

\* C13 witness: a CLOSED/FILTERED verdict after a socket error
C13_Witness ==
  /\ PortDone
  /\ tresp.result.kind = "PortClosed"
  /\ socks["port"].outcome = "error"
  /\ socks["port"].state = "destroyed"

\* C14: every probe that was started eventually has its promise settled,
\* whether the target connects, refuses, never answers or makes the connect
\* call throw, given that the timer of a connecting socket fires.
C14_ProbeEventuallyReturns ==
  \A i \in 1..MaxNodes :
    [](((i \in DOMAIN probes) /\ probes[i].sock # "none")
         => <>((i \in DOMAIN probes) /\ probes[i].promise # "pending"))

\* C14 witness: a probe was ended by its timer and has returned
C14_Witness ==
  \E i \in DOMAIN probes : probes[i].event = "timeout" /\ probes[i].promise # "pending"

\* C15: whenever a probe has delivered its result (after connect, timeout,
\* error or a connect call that threw), its socket has been destroyed.
C15_ProbeSocketDestroyedOnReturn ==
  \A i \in DOMAIN probes :
    probes[i].promise # "pending" => probes[i].sock = "destroyed"

\* C16: a probe ended by timeout and a probe ended by a socket
\* error yield different results.
C16_FailureCausesDistinguished ==
  \A i, j \in DOMAIN probes :
    (probes[i].event = "timeout" /\ probes[j].event = "error")
      => probes[i].promise # probes[j].promise

\* C17: every result of the GET handler has status online or offline,
\* online exactly when the probe of that entry connected.
C17_StatusIsOnlineOrOffline ==
  gpc = "done" =>
    \A i \in DOMAIN gresp.body :
      /\ gresp.body[i].status \in {"online", "offline"}
      /\ gresp.body[i].status = "online" <=> probes[i].event = "connect"

\* C18: the GET handler always answers 200; a missing, empty, unparsable or
\* non-list file gives the empty sequence.
C18_GetAlwaysAnswers200 ==
  gpc = "done" =>
    /\ gresp.status = 200
    /\ (file.kind # "list" \/ file.nodes = <<>>) => gresp.body = <<>>

\* C18 witness: the handler has answered for a file that does not parse
C18_Witness ==
  /\ gpc = "done"
  /\ file.kind = "unparsable"
  /\ gresp.body = <<>>

\* C19: the nslookup check answers with all addresses of the resolver, in
\* the resolver's order and separated by ", ", when the lookup succeeds, and
\* with a line carrying the resolver's error description when it fails; in
\* both cases the answer is a normal result, not an error response.
C19_NslookupReportsRecordsOrError ==
  (tpc = "done" /\ req.parses /\ req.target # "" /\ req.type = "nslookup") =>
    /\ tresp.status = 200
    /\ resolved.ok =>
         /\ tresp.result.kind = "DnsRecords"
         /\ tresp.result.target = req.target
         /\ Len(tresp.result.text) = 2 * Len(resolved.addrs) - 1
         /\ \A i \in 1..Len(resolved.addrs) :
              tresp.result.text[2 * i - 1] = resolved.addrs[i]
         /\ \A i \in 1..(Len(resolved.addrs) - 1) :
              tresp.result.text[2 * i] = ", "
    /\ ~resolved.ok =>
         /\ tresp.result.kind = "DnsError"
         /\ tresp.result.text = resolved.err

\* C19 witness: a lookup that returned two addresses has been answered
C19_Witness ==
  /\ tpc = "done"
  /\ req.type = "nslookup"
  /\ resolved.ok
  /\ Len(resolved.addrs) = 2
  /\ resolved.addrs[1] # resolved.addrs[2]

\* C20: an answered check made exactly one attempt for nslookup, port and
\* ssl, and one or two for ping, two exactly when the attempt on port 80
\* failed; no port was attempted twice.
C20_AttemptsPerCheck ==
  (tpc = "done" /\ req.parses /\ req.target # "" /\ req.type \in ToolTypes) =>
    /\ req.type \in {"nslookup", "port", "ssl"} => Len(attempts) = 1
    /\ req.type = "ping" =>
         /\ Len(attempts) \in {1, 2}
         /\ Len(attempts) = 2 <=> socks["p80"].outcome \in FailEvents
         /\ attempts[1] = 80
         /\ Len(attempts) = 2 => attempts[2] = 443
    /\ req.type # "nslookup" =>
         Cardinality({id \in SockIds : socks[id].state # "none"}) = Len(attempts)
    /\ \A i, j \in 1..Len(attempts) : attempts[i] = attempts[j] => i = j

\* C20 witness: a ping that needed its second attempt has been answered
C20_Witness ==
  /\ PingDone
  /\ Len(attempts) = 2
  /\ socks["p443"].state # "none"

\* C21: whenever the GET handler has sent a non-empty batch response, no
\* probe of the batch is still pending.
C21_RespondsAfterAllProbesTerminal ==
  (gpc = "done" /\ gresp.body # <<>>) =>
    /\ Len(probes) = Len(gresp.body)
    /\ \A i \in 1..Len(probes) : probes[i].promise # "pending"

\* C21 witness: a batch of two has been answered after one probe connected
\* and the other timed out
C21_Witness ==
  /\ gpc = "done"
  /\ Len(gresp.body) = 2
  /\ \E i, j \in 1..Len(probes) :
       probes[i].event = "connect" /\ probes[j].event = "timeout"

C23_DaysAreCeilingOfDifference ==
  (SslDone /\ tresp.result.kind = "SslSummary") =>
    /\ tresp.result.validTo = peerCert.validTo
    /\ (tresp.result.days - 1) * 86400000 < peerCert.validTo - socks["ssl"].ended
    /\ peerCert.validTo - socks["ssl"].ended <= tresp.result.days * 86400000

\* C23 witness: a certificate expired for more than one day, not a whole
\* number of days, is reported with a negative number
C23_Witness ==
  /\ SslDone
  /\ tresp.result.kind = "SslSummary"
  /\ tresp.result.days < 0
  /\ (socks["ssl"].ended - peerCert.validTo) % 86400000 # 0

\* every handler that was invoked has answered
RegQuiet == \A h \in Handlers : ppc[h] \in {"idle", "done"}

\* node n is an element of the registry file
InRegistry(n) ==
  /\ file.kind = "list"
  /\ \E i \in 1..Len(file.nodes) : file.nodes[i] = n

\* C24: once concurrent registrations have all answered (no GET involved),
\* the registry file holds the node of every registration answered with 201.
C24_NoRegistrationLost ==
  (gpc = "start" /\ RegQuiet) =>
    \A h \in Handlers : presp[h].status = 201 => InRegistry(presp[h].node)

\* C25: once a GET and a single registration have both finished, the node
\* answered with 201 is in the registry file.
C25_GetKeepsRegisteredNode ==
  \A h \in Handlers :
    (/\ gpc = "done"
     /\ presp[h].status = 201
     /\ \A o \in Handlers \ {h} : ppc[o] = "idle")
      => InRegistry(presp[h].node)

\* C26: the ids of the nodes in the registry file are pairwise distinct.
C26_RegistryIdsDistinct ==
  file.kind = "list" =>
    \A i, j \in 1..Len(file.nodes) :
      file.nodes[i].id = file.nodes[j].id => i = j

\* C27: in the dashboard's list a node whose probe connected is shown
\* online, and a node whose probe timed out or failed is shown offline.
C27_ConnectedNodeShownOnline ==
  dash.shown =>
    \A i \in DOMAIN dash.list :
      /\ probes[i].event = "connect" => dash.list[i].status = "online"
      /\ probes[i].event \in FailEvents => dash.list[i].status = "offline"

\* C28: once every started run of the tools panel has been answered, the
\* result shown is the response to the run started last.
C28_LatestRunIsShown ==
  (/\ panel.runs # <<>>
   /\ \A k \in 1..Len(panel.runs) : panel.runs[k].state # "pending")
    => panel.result.run = Len(panel.runs)

\* C29: the service status response holds one entry per configured
\* service, in the order of SERVICES, each with status online or error; a
\* service whose request threw is reported with status error and latency 0
\* and stays in the batch.
C29_OneEntryPerService ==
  svc.pc = "done" =>
    /\ svc.resp.status = 200
    /\ Len(svc.resp.nodes) = Len(SERVICES)
    /\ \A i \in 1..Len(svc.resp.nodes) :
         /\ svc.resp.nodes[i].id = SERVICES[i]
         /\ svc.resp.nodes[i].status \in {"online", "error"}
         /\ svc.checks[i].outcome = "threw" =>
              (svc.resp.nodes[i].status = "error" /\ svc.resp.nodes[i].latency = 0)

\* C29 witness: the batch has been answered although the first request
\* threw and a later one answered online
C29_Witness ==
  /\ svc.pc = "done"
  /\ svc.checks[1].outcome = "threw"
  /\ \E i \in 2..Len(svc.resp.nodes) : svc.resp.nodes[i].status = "online"

\* C30: once the effect has run, the selected node of the scene is none or
\* a node of the currently filtered list.
C30_SelectionWithinFilteredNodes ==
  ~scene.effectPending =>
    \/ scene.selected = NoSelection
    \/ \E n \in SERVERS :
         /\ n.id = scene.selected
         /\ scene.statusFilter \in {"all", n.status}
         /\ \/ scene.search \in {"", "  "}
            \/ scene.search = "Edge" /\ n.id \in {"sfo", "tok"}
            \/ scene.search = " US " /\ n.id \in {"nyc", "sfo"}

\* C30 witness: a selection was cleared by the effect after the filters
\* excluded it
C30_Witness ==
  /\ ~scene.effectPending
  /\ scene.selected = NoSelection
  /\ scene.clearedBy = "effect"
  /\ scene.statusFilter = "error"
  /\ scene.search = " US "

====
